---------------------------- MODULE Spec2Model ----------------------------
(***************************************************************************)
(* The resumable pipeline state of the UXR analysis tool: the State Store  *)
(* (uxr_config.json, ConfigManager) and the Upload Stage (Uploader) that   *)
(* reads and writes it, together with the remote object store and the      *)
(* remote transcription service as the Upload Stage sees them; the         *)
(* Progress Monitor (TranscriptionJobMonitor) that reads it; and the        *)
(* pointer to the latest run directory (latest_output_dir.txt).             *)
(*                                                                         *)
(* Strings the code inspects character by character (file names, remote    *)
(* keys) are sequences of one-character strings.  A File Record is a       *)
(* record; a key the Python dict may lack is a field holding an "absent"   *)
(* value: job_name = 0 and start_time = "none" stand for a missing key.    *)
(***************************************************************************)
EXTENDS Integers, Sequences, FiniteSets

VARIABLES
    config_file,     \* uxr_config.json of the run directory: [exists, parsable, data]
    config_data,     \* Uploader.config_data of the running process
    pc,              \* where the process is
    bucket_name,     \* local bucket_name of upload_videos
    files,           \* local files of upload_videos (list_files())
    existing_files,  \* local existing_files of upload_videos
    i,               \* position of the upload loop in files
    j,               \* position of the job loop in config_data["files"]
    polls,           \* head_object polls of the upload in progress
    put_calls,       \* per file name: s3_client.upload_file calls issued
    put_ok,          \* per file name: upload_file calls that succeeded
    submit_calls,    \* per file name: start_transcription_job calls issued
    submit_ok,       \* per file name: calls that created a remote job
    err_log,         \* file names with a logger.error line in this invocation
    invocations,     \* Upload Stage invocations started on the run
    done_bucket,     \* history: bucket of an invocation that returned with
                     \* every candidate file uploaded and submitted
    hist,            \* history: the files each remote call of this invocation
                     \* was tried and failed for, and what the last invocation
                     \* that returned left to do
    report,          \* what the last report_job_completion did
    in_key,          \* an input of sanitize_s3_key, or a media file name
    in_key2,         \* a second media file name
    out_key,         \* the key computed from in_key
    out_key2,        \* the key computed from in_key2, or from out_key
    kpc,             \* which of them have been computed
    saved,           \* the data last handed to save_config by a caller
    result,          \* what the last load_config of the document did
    latest_file,     \* latest_output_dir.txt: [exists, text]
    sets,            \* history: the directories handed to the last two
                     \* update_latest_output_dir calls
    latest_result    \* what the last get_latest_output_dir returned

\* calculate_completion_percentage
VARIABLES
    job_status,      \* its job_status argument
    size_in_mb,      \* its size_in_mb argument, in whole megabytes
    elapsed_time,    \* time.time() - start_time.timestamp(), in whole seconds
    percentage       \* what it returned: a fraction num / den, or what it raised

upload_vars == << config_file, config_data, pc, bucket_name, files, existing_files,
                  i, j, polls, put_calls, put_ok, submit_calls, submit_ok, err_log,
                  invocations, done_bucket, hist, report >>

\* the upload variables other than the document
process_vars == << config_data, pc, bucket_name, files, existing_files,
                   i, j, polls, put_calls, put_ok, submit_calls, submit_ok, err_log,
                   invocations, done_bucket, hist, report >>

key_vars == << in_key, in_key2, out_key, out_key2, kpc >>

store_vars == << saved, result, latest_file, sets, latest_result >>

\* process_transcripts (the Retrieval Stage)
VARIABLES
    rpc,             \* where the Retrieval Stage is
    objects_to_download,\* the keys list_s3_objects returned
    r_i,             \* position of the loop in objects_to_download
    staged,          \* transcripts/: per base name, what was downloaded
    parsed,          \* parsed_transcriptions/: per base name, the text written
    r_log,           \* keys with an error line, and keys with a skip line, of this run
    r_hist,          \* history: downloads tried and done by this run and by the first run, the parsed outputs the first run left
    runs             \* Retrieval Stage runs that have ended

\* strip_graymatter (header stripping of one file)
VARIABLES
    gm_pc,           \* where strip_graymatter is
    gm_content,      \* history: the lines of the file before the call
    gm_file          \* the lines of the file

\* summarize_transcripts and process_feedback_files (the generation stages)
VARIABLES
    g_pc,            \* where the generation stages are
    listing,         \* the subjects os.listdir gave to the running stage, in its order
    g_i,             \* position of the loop in listing
    review_dir,      \* user_testing_review/: whether it exists, and its files
    results,         \* results/: the subjects with a summary
    scores_dir,      \* scores/: its files
    reports,         \* reports/: per subject, whether the report holds a score
    g_log,           \* subjects with an error line, per stage
    invoked,         \* history: the calls of the external tool
    g_runs,          \* stage runs that have ended
    cwd              \* os.getcwd(): "start", where the process began, or a scratch directory

\* main (the menu loop) and confirm_latest_output_dir
VARIABLES
    c_pc,            \* where main is
    dirs,            \* the run directories that exist
    confirmed,         \* history: the call of confirm_latest_output_dir, what it saw and returned
    latest_output_dir,\* the run directory main selected
    turn,            \* the last turn of the menu loop: the choice, constructor calls, entry calls, lines printed
    n_turns          \* turns of the menu loop so far

\* wait_for_s3_upload on its own: the loop, the head answers and the bucket
VARIABLES
    w_pc,            \* position: off, polling, returned or raised
    w_object,        \* the object_name of the call
    visible,         \* the objects head_object finds in the bucket
    w_polls,         \* 404 answers of the call, counted up to MaxPolls
    w_last,          \* the last answer of head_object in the call
    w_log,           \* the object names of the logged errors
    w_calls          \* calls of wait_for_s3_upload so far

pct_vars == << job_status, size_in_mb, elapsed_time, percentage >>

retr_vars == << rpc, objects_to_download, r_i, staged, parsed, r_log, r_hist, runs >>

gray_vars == << gm_pc, gm_content, gm_file >>

gen_vars == << g_pc, listing, g_i, review_dir, results, scores_dir, reports, g_log, invoked, g_runs, cwd >>

cli_vars == << c_pc, dirs, confirmed, latest_output_dir, turn, n_turns >>

poll_vars == << w_pc, w_object, visible, w_polls, w_last, w_log, w_calls >>

\* ---- frames of the later stages
stage_vars == << pct_vars, retr_vars, gray_vars, gen_vars, cli_vars, poll_vars >>

vars == << upload_vars, key_vars, store_vars, stage_vars >>

\* everything but pct_vars
outside_pct == << upload_vars, key_vars, store_vars, retr_vars, gray_vars, gen_vars, cli_vars, poll_vars >>

\* everything but retr_vars
outside_retr == << upload_vars, key_vars, store_vars, pct_vars, gray_vars, gen_vars, cli_vars, poll_vars >>

\* everything but gray_vars
outside_gray == << upload_vars, key_vars, store_vars, pct_vars, retr_vars, gen_vars, cli_vars, poll_vars >>

\* everything but gen_vars
outside_gen == << upload_vars, key_vars, store_vars, pct_vars, retr_vars, gray_vars, cli_vars, poll_vars >>

\* everything but cli_vars
outside_cli == << upload_vars, key_vars, store_vars, pct_vars, retr_vars, gray_vars, gen_vars, poll_vars >>

\* the later stages but cli_vars
beside_cli == << pct_vars, retr_vars, gray_vars, gen_vars, poll_vars >>

\* everything but poll_vars
outside_poll == << upload_vars, key_vars, store_vars, pct_vars, retr_vars, gray_vars, gen_vars, cli_vars >>

\* ---- end of frames

---------------------------------------------------------------------------
(* Bounds of the model. *)

MaxInvocations == 2
MaxPolls == 1
MaxKeyLen == 2
MaxStemLen == 2
MaxRuns == 2
MaxLines == 5
MaxStageRuns == 3
MaxChoices == 3

---------------------------------------------------------------------------
(* The run's inputs. *)

\* "a.mp4", "b c.mp4" and "n.txt": the entries of the video directory.
DirectoryEntries ==
    << <<"a", ".", "m", "p", "4">>,
       <<"b", " ", "c", ".", "m", "p", "4">>,
       <<"n", ".", "t", "x", "t">> >>

\* Bucket names the operator may type.
Buckets == {"b1", "b2"}

\* config_data.get("bucket_name", ""): the falsy default.
NoBucket == ""

Mp4 == <<".", "m", "p", "4">>
Json == <<".", "j", "s", "o", "n">>
CompletedPrefix ==
    << "t", "r", "a", "n", "s", "c", "r", "i", "p", "t", "i", "o", "n", "s", "/",
       "c", "o", "m", "p", "l", "e", "t", "e", "d", "/" >>

---------------------------------------------------------------------------
(* Strings. *)

\* s[from..] starts with t
StartsAt(s, from, t) ==
    /\ from + Len(t) - 1 <= Len(s)
    /\ \A k \in 1..Len(t) : s[from + k - 1] = t[k]

\* str.endswith
EndsWith(s, t) == Len(s) >= Len(t) /\ StartsAt(s, Len(s) - Len(t) + 1, t)

RECURSIVE ReplaceFrom(_, _, _, _)
ReplaceFrom(s, from, old, new) ==
    IF from > Len(s) THEN <<>>
    ELSE IF StartsAt(s, from, old)
         THEN new \o ReplaceFrom(s, from + Len(old), old, new)
         ELSE <<s[from]>> \o ReplaceFrom(s, from + 1, old, new)

\* str.replace(old, new): every non-overlapping occurrence, left to right
Replace(s, old, new) == ReplaceFrom(s, 1, old, new)

\* Code points of the characters the model uses.
Code(c) ==
    CASE c = " " -> 32  [] c = "!" -> 33  [] c = "#" -> 35  [] c = "'" -> 39
      [] c = "(" -> 40  [] c = ")" -> 41  [] c = "*" -> 42  [] c = "-" -> 45
      [] c = "." -> 46  [] c = "/" -> 47  [] c = "0" -> 48  [] c = "4" -> 52
      [] c = "9" -> 57  [] c = ":" -> 58  [] c = "@" -> 64  [] c = "A" -> 65
      [] c = "Z" -> 90  [] c = "[" -> 91  [] c = "_" -> 95  [] c = "a" -> 97
      [] c = "b" -> 98  [] c = "c" -> 99  [] c = "e" -> 101 [] c = "i" -> 105
      [] c = "j" -> 106 [] c = "l" -> 108 [] c = "m" -> 109 [] c = "n" -> 110
      [] c = "o" -> 111 [] c = "p" -> 112 [] c = "r" -> 114 [] c = "s" -> 115
      [] c = "t" -> 116 [] c = "x" -> 120 [] c = "z" -> 122 [] c = "~" -> 126
      [] c = "é" -> 233

\* The character class of sanitize_s3_key, read as a range 9-_ after 0-9
\* instead of the literals - and _ (a misparsed class).
KeyClassMisparsed ==
    { <<97, 122>>, <<65, 90>>, <<48, 57>>, <<57, 95>>,
      <<46, 46>>, <<33, 33>>, <<42, 42>>, <<39, 39>>, <<40, 40>>, <<41, 41>>,
      <<47, 47>> }

\* The items of the class [a-zA-Z0-9-_.!*'()/] as code point ranges:
\* a-z, A-Z, 0-9, then the literals - _ . ! * ' ( ) /
KeyClass ==
    { <<97, 122>>, <<65, 90>>, <<48, 57>>, <<45, 45>>, <<95, 95>>,
      <<46, 46>>, <<33, 33>>, <<42, 42>>, <<39, 39>>, <<40, 40>>, <<41, 41>>,
      <<47, 47>> }

InKeyClass(c) == \E r \in KeyClass : r[1] <= Code(c) /\ Code(c) <= r[2]

\* The substitution with the class not negated: the allowed characters are
\* the ones replaced.
sanitize_s3_key_unnegated(key) ==
    [k \in 1..Len(key) |-> IF InKeyClass(key[k]) THEN "_" ELSE key[k]]

\* re.sub(r"[^a-zA-Z0-9-_.!*'()/]", "_", key)
sanitize_s3_key(key) ==
    [k \in 1..Len(key) |-> IF InKeyClass(key[k]) THEN key[k] ELSE "_"]

\* An output key that keeps the extension of the media file.
OutputKeyOfMedia(file_name) == CompletedPrefix \o sanitize_s3_key(file_name)

\* output_key of upload_videos
OutputKey(file_name) ==
    CompletedPrefix \o sanitize_s3_key(Replace(file_name, Mp4, Json))

---------------------------------------------------------------------------
(* The State Store. *)

\* {} : a config dict with no key
EmptyConfig ==
    [ video_directory |-> FALSE, templates |-> FALSE, bucket_name |-> NoBucket,
      has_files |-> FALSE, files |-> <<>> ]

\* start times held as datetime objects, of two instants
Datetimes == {"datetime", "datetime2"}

\* datetime.isoformat(): the ISO-8601 string of the instant
isoformat(t) == CASE t = "datetime" -> "iso" [] t = "datetime2" -> "iso2"

\* A start time written as it is held.
SerializeStartTimeKept(file_info) == file_info

\* datetime start times become ISO strings on save
SerializeStartTime(file_info) ==
    IF file_info.start_time \in Datetimes
    THEN [file_info EXCEPT !.start_time = isoformat(@)]
    ELSE file_info

SerializeFiles(data) ==
    [data EXCEPT !.files = [k \in 1..Len(data.files) |-> SerializeStartTime(data.files[k])]]

\* A save that writes nothing.
save_config_skipped(data, file) == file

\* ConfigManager.save_config: the document on disk after saving data
save_config(data, file) ==
    [exists |-> TRUE, parsable |-> TRUE, data |-> SerializeFiles(data)]

\* open(config_file, "w") of save_config has run and json.dump has not
\* finished: the document is empty or cut short, and json.load rejects it
truncated_config == [exists |-> TRUE, parsable |-> FALSE, data |-> EmptyConfig]

\* A load that answers an absent or unreadable document with what it holds.
load_config_lenient(file) ==
    [raised |-> "none", returned |-> TRUE, value |-> file.data]

\* ConfigManager.load_config: the Run Context of the document, or the
\* exception raised again after logging it
load_config(file) ==
    IF ~file.exists
    THEN [raised |-> "FileNotFoundError", returned |-> FALSE, value |-> EmptyConfig]
    ELSE IF ~file.parsable
         THEN [raised |-> "JSONDecodeError", returned |-> FALSE, value |-> EmptyConfig]
         ELSE [raised |-> "none", returned |-> TRUE, value |-> file.data]

---------------------------------------------------------------------------
(* The Upload Stage: Uploader. *)

\* list_files: the entries of the directory that end with ".mp4"
list_files == SelectSeq(DirectoryEntries, LAMBDA name : EndsWith(name, Mp4))

MediaFiles == { list_files[k] : k \in 1..Len(list_files) }

\* A File Record written before its upload has been timed.
FileInfoUntimed(file_name, bucket) ==
    [ file_name |-> file_name, media_uri |-> << bucket, file_name >>,
      output_key |-> OutputKey(file_name), upload_time |-> FALSE,
      job_name |-> 0, start_time |-> "none" ]

\* file_info of upload_videos: the File Record of an uploaded file
FileInfo(file_name, bucket) ==
    [ file_name |-> file_name, media_uri |-> << bucket, file_name >>,
      output_key |-> OutputKey(file_name), upload_time |-> TRUE,
      job_name |-> 0, start_time |-> "none" ]

\* An except clause that drops the error.
LogErrorDropped(log, file_name) == log

\* logger.error(f"Error ... {file_name}: {e}")
LogError(log, file_name) == log \cup {file_name}

\* A failed turn that leaves the loop.
LeaveLoop(k, n) == n + 1

\* the except clause of a loop's turn k of n ends the turn: the next one runs
ContinueLoop(k, n) == k + 1

\* bucket_name not in self.config_data.get("bucket_name", ""): the names of
\* Buckets are not substrings of one another, and no name is in ""
BucketNotIn(bucket, data) == bucket # data.bucket_name

RECURSIVE Total(_, _)
Total(f, S) ==
    IF S = {} THEN 0
    ELSE LET x == CHOOSE x \in S : TRUE IN f[x] + Total(f, S \ {x})

\* job_name = f"transcription-{uuid.uuid4()}": a name no earlier job has
NewJobName == Total(submit_calls, MediaFiles) + 1

\* every candidate file has a File Record with upload_time and job_name
AllRecorded(data) ==
    \A f \in MediaFiles :
        \E k \in 1..Len(data.files) :
            /\ data.files[k].file_name = f
            /\ data.files[k].upload_time
            /\ data.files[k].job_name # 0

\* done_bucket once upload_videos returns
DoneAtReturn ==
    IF config_file.exists /\ AllRecorded(config_file.data)
    THEN bucket_name ELSE done_bucket

\* done_bucket once the operator has chosen the bucket b
DoneAfterChoice(b) == IF b = done_bucket THEN done_bucket ELSE NoBucket

\* the file names of the File Records a reader finds in the document
RecordedNames(file) ==
    IF file.exists /\ file.parsable
    THEN { file.data.files[k].file_name : k \in 1..Len(file.data.files) }
    ELSE {}

\* no remote call tried yet, nothing left by an earlier invocation, no
\* File Record persisted when the invocation began (files_before is
\* followed until the operator has agreed to proceed)
NoHistory ==
    [ put_tried |-> {}, put_failed |-> {}, head_failed |-> {},
      submit_tried |-> {}, submit_failed |-> {},
      pending |-> {}, last_bucket |-> NoBucket, files_before |-> {} ]

\* no report asked for since the last invocation
NoReport == [outcome |-> "unset", rows |-> <<>>]

\* hist once upload_videos returns from the job loop: the files uploaded and
\* not submitted, and the bucket they are in
HistAtReturn ==
    [hist EXCEPT !.pending =
                    { config_data.files[k].file_name :
                        k \in { n \in 1..Len(config_data.files) :
                                  /\ config_data.files[n].upload_time
                                  /\ config_data.files[n].job_name = 0 } },
                 !.last_bucket = bucket_name]

\* no process yet: nothing held in memory, nothing sent
ProcessInit ==
    /\ config_data = EmptyConfig
    /\ pc = "none"
    /\ bucket_name = NoBucket
    /\ files = <<>>
    /\ existing_files = {}
    /\ i = 1
    /\ j = 1
    /\ polls = 0
    /\ put_calls = [f \in MediaFiles |-> 0]
    /\ put_ok = [f \in MediaFiles |-> 0]
    /\ submit_calls = [f \in MediaFiles |-> 0]
    /\ submit_ok = [f \in MediaFiles |-> 0]
    /\ err_log = {}
    /\ invocations = 0
    /\ done_bucket = NoBucket
    /\ hist = NoHistory
    /\ report = NoReport

\* no uxr_config.json in the run directory
NoDocument == [exists |-> FALSE, parsable |-> FALSE, data |-> EmptyConfig]

\* A new run directory and no process
UploadInit ==
    /\ config_file = NoDocument
    /\ ProcessInit

\* no sanitize_s3_key call is followed
KeysOff ==
    /\ in_key = <<>>
    /\ in_key2 = <<>>
    /\ out_key = <<>>
    /\ out_key2 = <<>>
    /\ kpc = "off"

\* calculate_completion_percentage is not followed
PctOff ==
    /\ job_status = "none"
    /\ size_in_mb = 0
    /\ elapsed_time = 0
    /\ percentage = [outcome |-> "unset", num |-> 0, den |-> 1]

\* no load_config result yet
NoResult == [raised |-> "unset", returned |-> FALSE, value |-> EmptyConfig]

\* no get_latest_output_dir result yet
NoLatestResult == [called |-> FALSE, none |-> FALSE, value |-> <<>>]

\* a new working directory: no latest_output_dir.txt, no ConfigManager call
StoreInit ==
    /\ saved = EmptyConfig
    /\ result = NoResult
    /\ latest_file = [exists |-> FALSE, text |-> <<>>]
    /\ sets = << >>
    /\ latest_result = NoLatestResult

\* the Retrieval Stage has not run: nothing staged, nothing parsed
RetrievalOff ==
    /\ rpc = "idle"
    /\ objects_to_download = << >>
    /\ r_i = 1
    /\ staged = {}
    /\ parsed = {}
    /\ r_log = [errors |-> {}, skipped |-> {}]
    /\ r_hist = [ tried |-> {}, downloaded |-> {}, downloads |-> 0,
                  first_downloaded |-> {}, first_parsed |-> {} ]
    /\ runs = 0

\* strip_graymatter has no file to work on
GraymatterOff ==
    /\ gm_pc = "off"
    /\ gm_content = << >>
    /\ gm_file = << >>

\* no generation stage has run
GenerationOff ==
    /\ g_pc = "idle"
    /\ listing = << >>
    /\ g_i = 1
    /\ review_dir = [exists |-> FALSE, files |-> {}]
    /\ results = {}
    /\ scores_dir = {}
    /\ reports = {}
    /\ g_log = {}
    /\ invoked = << >>
    /\ g_runs = 0
    /\ cwd = "start"

\* confirm_latest_output_dir not called
NoConfirm ==
    [ called |-> FALSE, pointer |-> [exists |-> FALSE, text |-> << >>],
      answer |-> << >>, prompted |-> FALSE, returned |-> FALSE ]

\* no choice read yet
NoTurn ==
    [ choice |-> "none", directory |-> "none", constructed |-> << >>,
      entered |-> << >>, printed |-> << >>, raised |-> "no" ]

\* main has not started
CliOff ==
    /\ c_pc = "off"
    /\ dirs = {}
    /\ confirmed = NoConfirm
    /\ latest_output_dir = << >>
    /\ turn = NoTurn
    /\ n_turns = 0

\* wait_for_s3_upload has not been called
PollOff ==
    /\ w_pc = "off"
    /\ w_object = << >>
    /\ visible = {}
    /\ w_polls = 0
    /\ w_last = "none"
    /\ w_log = {}
    /\ w_calls = 0

\* ---- initial values of the later stages
\* no later stage has run, the one of the tag aside
StagesOffBut(tag) ==
    /\ IF tag = "pct" THEN TRUE ELSE PctOff
    /\ IF tag = "retr" THEN TRUE ELSE RetrievalOff
    /\ IF tag = "gray" THEN TRUE ELSE GraymatterOff
    /\ IF tag = "gen" THEN TRUE ELSE GenerationOff
    /\ IF tag = "cli" THEN TRUE ELSE CliOff
    /\ IF tag = "poll" THEN TRUE ELSE PollOff

\* ---- end of initial values
Init ==
    /\ UploadInit
    /\ KeysOff
    /\ StoreInit
    /\ StagesOffBut("none")

\* the locals of upload_videos and the log of a new invocation
FreshInvocation ==
    /\ bucket_name' = NoBucket
    /\ files' = <<>>
    /\ existing_files' = {}
    /\ i' = 1
    /\ j' = 1
    /\ polls' = 0
    /\ err_log' = {}
    /\ invocations' = invocations + 1
    /\ hist' = [NoHistory EXCEPT
                  !.pending = hist.pending,
                  !.last_bucket = hist.last_bucket,
                  !.files_before = RecordedNames(config_file)]
    /\ report' = NoReport

\* Uploader.__init__ (menu choice 1): config_data = {video_directory} is saved
\* over the run's document
Construct ==
    /\ pc \in {"none", "returned"}
    /\ invocations < MaxInvocations
    /\ config_data' = [EmptyConfig EXCEPT !.video_directory = TRUE]
    /\ config_file' = save_config(config_data', config_file)
    /\ pc' = "constructed"
    /\ FreshInvocation
    /\ UNCHANGED << put_calls, put_ok, submit_calls, submit_ok, done_bucket, key_vars, store_vars, stage_vars >>

\* upload_videos: select_template_directory, which saves or raises
SelectTemplateDirectory ==
    /\ pc = "constructed"
    /\ \E ok \in BOOLEAN :
        IF ok
        THEN /\ config_data' = [config_data EXCEPT !.templates = TRUE]
             /\ config_file' = save_config(config_data', config_file)
             /\ pc' = "check"
        ELSE /\ pc' = "none"
             /\ UNCHANGED << config_data, config_file >>
    /\ UNCHANGED << bucket_name, files, existing_files, i, j, polls, put_calls, put_ok,
                    submit_calls, submit_ok, err_log, invocations, done_bucket,
                    hist, report, key_vars, store_vars, stage_vars >>

\* check_previous_run: the document is loaded (a missing or unreadable one
\* leaves config_data alone: the exception is dropped); a previous bucket is reused on "yes", the run's document is reset
\* otherwise
CheckPreviousRun ==
    /\ pc = "check"
    /\ \E use_previous \in BOOLEAN :
        LET answer == load_config(config_file)
            loaded == IF answer.returned THEN answer.value ELSE config_data
        IN  IF answer.returned /\ loaded.bucket_name # NoBucket
            THEN IF use_previous
                 THEN /\ config_data' = loaded
                      /\ bucket_name' = loaded.bucket_name
                      /\ done_bucket' = DoneAfterChoice(loaded.bucket_name)
                      /\ pc' = "confirm"
                      /\ UNCHANGED config_file
                 ELSE /\ config_data' = EmptyConfig
                      /\ config_file' = save_config(EmptyConfig, config_file)
                      /\ done_bucket' = NoBucket
                      /\ pc' = "bucket"
                      /\ UNCHANGED bucket_name
            ELSE /\ config_data' = loaded
                 /\ pc' = "bucket"
                 /\ UNCHANGED << config_file, bucket_name, done_bucket >>
    /\ UNCHANGED << files, existing_files, i, j, polls, put_calls, put_ok,
                    submit_calls, submit_ok, err_log, invocations, hist, report,
                    key_vars, store_vars, stage_vars >>

\* bucket_name = input(...); create_s3_bucket(bucket_name): the bucket is
\* created and recorded, or already exists (a warning), or the call raises
CreateS3Bucket ==
    /\ pc = "bucket"
    /\ \E b \in Buckets, outcome \in {"created", "exists", "error"} :
        /\ bucket_name' = b
        /\ done_bucket' = DoneAfterChoice(b)
        /\ CASE outcome = "created" ->
                  /\ config_data' = [config_data EXCEPT !.bucket_name = b]
                  /\ config_file' = save_config(config_data', config_file)
                  /\ pc' = "confirm"
             [] outcome = "exists" ->
                  /\ pc' = "confirm"
                  /\ UNCHANGED << config_data, config_file >>
             [] outcome = "error" ->
                  /\ pc' = "none"
                  /\ UNCHANGED << config_data, config_file >>
    /\ UNCHANGED << files, existing_files, i, j, polls, put_calls, put_ok,
                    submit_calls, submit_ok, err_log, invocations, hist, report,
                    key_vars, store_vars, stage_vars >>

\* files = list_files(); confirm_proceed(files); config_data["files"] and
\* existing_files are set up, or the operation is cancelled
ConfirmProceed ==
    /\ pc = "confirm"
    /\ \E confirm \in BOOLEAN :
        IF confirm
        THEN /\ files' = list_files
             /\ config_data' = [config_data EXCEPT !.has_files = TRUE]
             /\ existing_files' =
                  { config_data.files[k].file_name :
                      k \in { n \in 1..Len(config_data.files) : config_data.files[n].upload_time } }
             /\ i' = 1
             /\ pc' = "upload"
             /\ hist' = [hist EXCEPT !.files_before = {}]
             /\ UNCHANGED done_bucket
        ELSE /\ files' = list_files
             /\ pc' = "returned"
             /\ done_bucket' = DoneAtReturn
             /\ UNCHANGED << config_data, existing_files, i, hist >>
    /\ UNCHANGED << config_file, bucket_name, j, polls, put_calls, put_ok,
                    submit_calls, submit_ok, err_log, invocations, report,
                    key_vars, store_vars, stage_vars >>

\* One turn of the upload loop: the loop ends, or the file is skipped, or
\* s3_client.upload_file is called and succeeds or raises
UploadFile ==
    /\ pc = "upload"
    /\ IF i > Len(files)
       THEN /\ pc' = "jobs"
            /\ j' = 1
            /\ UNCHANGED << i, put_calls, put_ok, err_log, hist >>
       ELSE LET file_name == files[i] IN
            IF BucketNotIn(bucket_name, config_data) \/ file_name \notin existing_files
            THEN \E ok \in BOOLEAN :
                    /\ put_calls' = [put_calls EXCEPT ![file_name] = @ + 1]
                    /\ IF ok
                       THEN /\ put_ok' = [put_ok EXCEPT ![file_name] = @ + 1]
                            /\ hist' = [hist EXCEPT !.put_tried = @ \cup {file_name}]
                            /\ pc' = "head"
                            /\ UNCHANGED << i, err_log >>
                       ELSE /\ err_log' = LogError(err_log, file_name)
                            /\ hist' = [hist EXCEPT !.put_tried = @ \cup {file_name},
                                                    !.put_failed = @ \cup {file_name}]
                            /\ i' = ContinueLoop(i, Len(files))
                            /\ UNCHANGED << pc, put_ok >>
                    /\ UNCHANGED j
            ELSE /\ i' = i + 1
                 /\ UNCHANGED << pc, j, put_calls, put_ok, err_log, hist >>
    /\ polls' = 0
    /\ UNCHANGED << config_file, config_data, bucket_name, files, existing_files,
                    submit_calls, submit_ok, invocations, done_bucket, report,
                    key_vars, store_vars, stage_vars >>

\* wait_for_s3_upload, then the rest of the try block: head_object answers
\* 404 (poll again), or finds the object, or fails with another ClientError
\* (logged, and the polling loop is left), or raises something that is not a
\* ClientError (it reaches the except clause of the upload loop); once
\* wait_for_s3_upload returns the File Record is appended and saved
WaitForS3Upload ==
    /\ pc = "head"
    /\ \E head \in {"found", "404", "error", "raises"} :
        CASE head = "404" ->
                /\ polls < MaxPolls
                /\ polls' = polls + 1
                /\ UNCHANGED << config_data, config_file, err_log, i, pc, hist >>
          [] head = "raises" ->
                /\ err_log' = LogError(err_log, files[i])
                /\ hist' = [hist EXCEPT !.head_failed = @ \cup {files[i]}]
                /\ i' = ContinueLoop(i, Len(files))
                /\ pc' = "upload"
                /\ UNCHANGED << config_data, config_file, polls >>
          [] head \in {"found", "error"} ->
                /\ config_data' =
                     [config_data EXCEPT !.files = Append(@, FileInfo(files[i], bucket_name))]
                /\ config_file' = save_config(config_data', config_file)
                /\ err_log' = IF head = "error" THEN LogError(err_log, files[i]) ELSE err_log
                /\ hist' = IF head = "error"
                           THEN [hist EXCEPT !.head_failed = @ \cup {files[i]}]
                           ELSE hist
                /\ i' = i + 1
                /\ pc' = "upload"
                /\ UNCHANGED polls
    /\ UNCHANGED << bucket_name, files, existing_files, j, put_calls, put_ok,
                    submit_calls, submit_ok, invocations, done_bucket, report,
                    key_vars, store_vars, stage_vars >>

\* One turn of the job loop: the loop ends and upload_videos returns, or the
\* record is skipped, or start_transcription_job is called: it raises, or its
\* response gives job_name and start_time (saved), or job_name is set and
\* reading CreationTime raises (logged, not saved)
StartTranscriptionJob ==
    /\ pc = "jobs"
    /\ IF j > Len(config_data.files)
       THEN /\ pc' = "returned"
            /\ done_bucket' = DoneAtReturn
            /\ hist' = HistAtReturn
            /\ UNCHANGED << j, config_data, config_file, submit_calls, submit_ok, err_log >>
       ELSE LET file_info == config_data.files[j] IN
            IF file_info.job_name # 0
            THEN /\ j' = j + 1
                 /\ UNCHANGED << pc, done_bucket, config_data, config_file,
                                 submit_calls, submit_ok, err_log, hist >>
            ELSE \E response \in {"raises", "complete", "no_creation_time"} :
                    /\ submit_calls' = [submit_calls EXCEPT ![file_info.file_name] = @ + 1]
                    /\ UNCHANGED << pc, done_bucket >>
                    /\ CASE response = "raises" ->
                              /\ err_log' = LogError(err_log, file_info.file_name)
                              /\ hist' = [hist EXCEPT
                                            !.submit_tried = @ \cup {file_info.file_name},
                                            !.submit_failed = @ \cup {file_info.file_name}]
                              /\ j' = ContinueLoop(j, Len(config_data.files))
                              /\ UNCHANGED << config_data, config_file, submit_ok >>
                         [] response = "complete" ->
                              /\ submit_ok' = [submit_ok EXCEPT ![file_info.file_name] = @ + 1]
                              /\ config_data' =
                                   [config_data EXCEPT !.files[j].job_name = NewJobName,
                                                       !.files[j].start_time = "iso"]
                              /\ config_file' = save_config(config_data', config_file)
                              /\ hist' = [hist EXCEPT
                                            !.submit_tried = @ \cup {file_info.file_name}]
                              /\ j' = j + 1
                              /\ UNCHANGED err_log
                         [] response = "no_creation_time" ->
                              /\ submit_ok' = [submit_ok EXCEPT ![file_info.file_name] = @ + 1]
                              /\ config_data' =
                                   [config_data EXCEPT !.files[j].job_name = NewJobName]
                              /\ err_log' = LogError(err_log, file_info.file_name)
                              /\ hist' = [hist EXCEPT
                                            !.submit_tried = @ \cup {file_info.file_name}]
                              /\ j' = ContinueLoop(j, Len(config_data.files))
                              /\ UNCHANGED config_file
    /\ UNCHANGED << bucket_name, files, existing_files, i, polls, put_calls, put_ok,
                    invocations, report, key_vars, store_vars, stage_vars >>

\* The process dies inside an invocation: what it held in memory is gone
Crash ==
    /\ pc \in {"constructed", "check", "bucket", "confirm", "upload", "head", "jobs"}
    /\ pc' = "none"
    /\ UNCHANGED << config_file, config_data, bucket_name, files, existing_files, i, j,
                    polls, put_calls, put_ok, submit_calls, submit_ok, err_log,
                    invocations, done_bucket, hist, report, key_vars, store_vars, stage_vars >>

\* The process dies inside save_config, between open(config_file, "w") and the
\* end of json.dump: the saves of select_template_directory, of
\* create_s3_bucket and of the upload loop, which no remote call of the same
\* step precedes
CrashDuringSave ==
    /\ pc \in {"constructed", "bucket", "head"}
    /\ config_file' = truncated_config
    /\ pc' = "none"
    /\ UNCHANGED << config_data, bucket_name, files, existing_files, i, j,
                    polls, put_calls, put_ok, submit_calls, submit_ok, err_log,
                    invocations, done_bucket, hist, report, key_vars, store_vars, stage_vars >>

Next ==
    \/ Construct
    \/ SelectTemplateDirectory
    \/ CheckPreviousRun
    \/ CreateS3Bucket
    \/ ConfirmProceed
    \/ UploadFile
    \/ WaitForS3Upload
    \/ StartTranscriptionJob
    \/ Crash
    \/ CrashDuringSave

Spec == Init /\ [][Next]_vars

---------------------------------------------------------------------------
(* The earlier Uploader (transcribe-uxr): its constructor takes the video   *)
(* directory and saves nothing, and upload_videos starts at                 *)
(* check_previous_run; the rest of upload_videos is the same code.          *)

ConstructLegacy ==
    /\ pc \in {"none", "returned"}
    /\ invocations < MaxInvocations
    /\ config_data' = EmptyConfig
    /\ pc' = "check"
    /\ FreshInvocation
    /\ UNCHANGED << config_file, put_calls, put_ok, submit_calls, submit_ok,
                    done_bucket, key_vars, store_vars, stage_vars >>

NextLegacy ==
    \/ ConstructLegacy
    \/ CheckPreviousRun
    \/ CreateS3Bucket
    \/ ConfirmProceed
    \/ UploadFile
    \/ WaitForS3Upload
    \/ StartTranscriptionJob
    \/ Crash
    \/ CrashDuringSave

SpecLegacy == Init /\ [][NextLegacy]_vars

---------------------------------------------------------------------------
(* sanitize_s3_key and the output key as functions of their input. *)

Keys ==
    UNION { [1..n -> {"a", "Z", "9", "-", "_", ".", "/", " ", ":", "é"}] : n \in 0..MaxKeyLen }

\* media file names: a stem and the extension list_files asks for
FileNames == { stem \o Mp4 : stem \in UNION { [1..n -> {"a", "_", " ", ":", "."}] : n \in 1..MaxStemLen } }

InitSanitize ==
    /\ UploadInit
    /\ in_key \in Keys
    /\ in_key2 = <<>>
    /\ out_key = <<>>
    /\ out_key2 = <<>>
    /\ kpc = "input"
    /\ StoreInit
    /\ StagesOffBut("none")

\* sanitize_s3_key(in_key)
Sanitize ==
    /\ kpc = "input"
    /\ out_key' = sanitize_s3_key(in_key)
    /\ kpc' = "sanitized"
    /\ UNCHANGED << upload_vars, store_vars, stage_vars, in_key, in_key2, out_key2 >>

\* sanitize_s3_key applied to its own result
Resanitize ==
    /\ kpc = "sanitized"
    /\ out_key2' = sanitize_s3_key(out_key)
    /\ kpc' = "resanitized"
    /\ UNCHANGED << upload_vars, store_vars, stage_vars, in_key, in_key2, out_key >>

NextSanitize == Sanitize \/ Resanitize

SpecSanitize == InitSanitize /\ [][NextSanitize]_vars

InitOutputKey ==
    /\ UploadInit
    /\ in_key \in FileNames
    /\ in_key2 \in FileNames
    /\ out_key = <<>>
    /\ out_key2 = <<>>
    /\ kpc = "names"
    /\ StoreInit
    /\ StagesOffBut("none")

\* output_key of two files of one run
ComputeOutputKeys ==
    /\ kpc = "names"
    /\ out_key' = OutputKey(in_key)
    /\ out_key2' = OutputKey(in_key2)
    /\ kpc' = "keys"
    /\ UNCHANGED << upload_vars, store_vars, stage_vars, in_key, in_key2 >>

SpecOutputKey == InitOutputKey /\ [][ComputeOutputKeys]_vars

---------------------------------------------------------------------------
(* ConfigManager as its callers see it: the document and the pointer to the *)
(* latest run directory.                                                    *)

\* File Records a caller may hand to save_config for the k-th media file:
\* uploaded and not submitted, or submitted (the k-th job) with the start time
\* as a string or as a datetime
StoreRecords(k) ==
    { [FileInfo(list_files[k], "b1") EXCEPT !.job_name = v[1], !.start_time = v[2]] :
        v \in { <<0, "none">>, <<k, "iso">>, <<k, "datetime">>, <<k, "datetime2">> } }

\* Run Contexts a caller may hand to save_config: the records of the first
\* files of the directory, in the order of list_files
Documents ==
    { [ video_directory |-> TRUE, templates |-> TRUE, bucket_name |-> b,
        has_files |-> TRUE, files |-> fs ] :
        b \in {NoBucket, "b1"},
        fs \in UNION { { r \in [1..n -> UNION { StoreRecords(k) : k \in 1..n }] :
                          \A k \in 1..n : r[k] \in StoreRecords(k) } :
                        n \in 0..Len(list_files) } }

\* output_dir = f"out-{timestamp}" of main: "out-1", "out-2"
RunIds == { <<"o", "u", "t", "-", "1">>, <<"o", "u", "t", "-", "2">> }

\* the characters str.strip() removes
Whitespace == {" ", "\t", "\n", "\r"}

RECURSIVE lstrip(_)
lstrip(s) == IF s # <<>> /\ Head(s) \in Whitespace THEN lstrip(Tail(s)) ELSE s

RECURSIVE rstrip(_)
rstrip(s) ==
    IF s # <<>> /\ s[Len(s)] \in Whitespace THEN rstrip(SubSeq(s, 1, Len(s) - 1)) ELSE s

\* str.strip()
strip(s) == rstrip(lstrip(s))

\* A pointer file opened for appending.
update_latest_output_dir_appended(output_dir, file) ==
    [exists |-> TRUE, text |-> file.text \o output_dir]

\* ConfigManager.update_latest_output_dir: the pointer file after the call
update_latest_output_dir(output_dir, file) == [exists |-> TRUE, text |-> output_dir]

\* ConfigManager.get_latest_output_dir: the stripped text, or None
get_latest_output_dir(file) ==
    IF file.exists
    THEN [called |-> TRUE, none |-> FALSE, value |-> strip(file.text)]
    ELSE [called |-> TRUE, none |-> TRUE, value |-> <<>>]

\* A caller saves a Run Context
SaveConfig ==
    /\ \E data \in Documents :
        /\ saved' = data
        /\ config_file' = save_config(data, config_file)
    /\ result' = NoResult
    /\ UNCHANGED << process_vars, key_vars, stage_vars, latest_file, sets, latest_result >>

\* The process dies inside save_config, and a new one is started
SaveInterrupted ==
    /\ config_file' = truncated_config
    /\ result' = NoResult
    /\ UNCHANGED << process_vars, key_vars, stage_vars, saved, latest_file, sets, latest_result >>

\* A caller loads the document
LoadConfig ==
    /\ result' = load_config(config_file)
    /\ UNCHANGED << upload_vars, key_vars, stage_vars, saved, latest_file, sets, latest_result >>

\* main starts a new run directory and points at it
UpdateLatestOutputDir ==
    /\ \E r \in RunIds :
        /\ latest_file' = update_latest_output_dir(r, latest_file)
        /\ sets' = IF sets = << >> THEN << r >> ELSE << sets[Len(sets)], r >>
    /\ latest_result' = NoLatestResult
    /\ UNCHANGED << upload_vars, key_vars, stage_vars, saved, result >>

\* confirm_latest_output_dir asks for the pointer
GetLatestOutputDir ==
    /\ latest_result' = get_latest_output_dir(latest_file)
    /\ UNCHANGED << upload_vars, key_vars, stage_vars, saved, result, latest_file, sets >>

NextStore ==
    \/ SaveConfig
    \/ SaveInterrupted
    \/ LoadConfig
    \/ UpdateLatestOutputDir
    \/ GetLatestOutputDir

SpecStore == Init /\ [][NextStore]_vars

---------------------------------------------------------------------------
(* The Progress Monitor: TranscriptionJobMonitor. *)

\* what get_transcription_job_status gives: the status the service reports
\* for a job, or None ("error") when the query raises
StatusAnswers == {"IN_PROGRESS", "COMPLETED", "FAILED", "error"}

\* The document opened for writing.
open_write(file) == truncated_config

\* open(file_path, "r"): the document after it is opened
open_read(file) == file

\* datetime.fromisoformat accepts the string
Parses(start_time) == start_time \in {"iso", "iso2"}

\* read_jobs_from_file: the job names of the records of the document, in
\* order; [] if there is no document; json.load raises on an unreadable one;
\* item.get("start_time") of a record without start time is None, and
\* None.replace raises AttributeError, which nothing catches; a start time
\* fromisoformat rejects is printed and its record left out
read_jobs_from_file(file) ==
    IF ~file.exists
    THEN [raised |-> "none", jobs |-> <<>>]
    ELSE IF ~file.parsable
         THEN [raised |-> "JSONDecodeError", jobs |-> <<>>]
         ELSE LET items == file.data.files IN
              IF \E k \in 1..Len(items) : items[k].start_time = "none"
              THEN [raised |-> "AttributeError", jobs |-> <<>>]
              ELSE LET kept == SelectSeq(items, LAMBDA item : Parses(item.start_time))
                   IN  [raised |-> "none",
                        jobs |-> [k \in 1..Len(kept) |-> kept[k].job_name]]

\* report_job_completion (menu choice 2, between two uses of the Upload
\* Stage): the jobs are read; with none the
\* call returns; otherwise each job's status is asked for and a row is made
\* of it, "UNKNOWN" when the query failed, and the table is printed
ReportJobCompletion ==
    /\ pc \in {"none", "returned"}
    /\ config_file' = open_read(config_file)
    /\ LET read == read_jobs_from_file(config_file) IN
       IF read.raised # "none"
       THEN report' = [outcome |-> "raised", rows |-> <<>>]
       ELSE IF read.jobs = <<>>
            THEN report' = [outcome |-> "no_jobs", rows |-> <<>>]
            ELSE \E answers \in [1..Len(read.jobs) -> StatusAnswers] :
                    report' =
                      [outcome |-> "printed",
                       rows |-> [k \in 1..Len(read.jobs) |->
                                   << read.jobs[k],
                                      IF answers[k] = "error" THEN "UNKNOWN"
                                      ELSE answers[k] >>]]
    /\ UNCHANGED << config_data, pc, bucket_name, files, existing_files, i, j,
                    polls, put_calls, put_ok, submit_calls, submit_ok, err_log,
                    invocations, done_bucket, hist, key_vars, store_vars, stage_vars >>

\* The document the monitor finds: none, one cut short by an interrupted
\* save, or a saved Run Context
InitMonitor ==
    /\ config_file \in {NoDocument, truncated_config}
                          \cup { save_config(data, NoDocument) : data \in Documents }
    /\ ProcessInit
    /\ KeysOff
    /\ StoreInit
    /\ StagesOffBut("none")

SpecMonitor == InitMonitor /\ [][ReportJobCompletion]_vars

---------------------------------------------------------------------------
(* calculate_completion_percentage as a function of its inputs.  Sizes are  *)
(* whole megabytes and times whole seconds; a percentage is the fraction    *)
(* num / den, so that nothing is rounded.                                   *)

\* the statuses the transcription service reports
JobStatuses == {"QUEUED", "IN_PROGRESS", "COMPLETED", "FAILED"}

\* sizes of media files in MB: an empty file, small ones, larger ones
SizesInMb == {0, 1, 2, 20, 100}

\* time.time() - start_time.timestamp() in seconds: negative when the
\* recorded start time is later than the clock of the reporting machine
ElapsedTimes == {-30, -1, 0, 1, 2, 3, 15, 29, 30, 31, 150}

\* return x, as a fraction
Returned(num, den) == [outcome |-> "returned", num |-> num, den |-> den]

\* min(num / den, cap)
min(num, den, cap) == IF num >= cap * den THEN Returned(cap, 1) ELSE Returned(num, den)

\* calculate_completion_percentage: estimated_duration = size_in_mb * 1.5 is
\* (3 * size) / 2, so (elapsed / estimated_duration) * 100 is
\* (200 * elapsed) / (3 * size); the division raises when the size is 0
calculate_completion_percentage(status, size, elapsed) ==
    IF status = "COMPLETED"
    THEN Returned(100, 1)
    ELSE IF status = "IN_PROGRESS"
         THEN IF 3 * size = 0
              THEN [outcome |-> "ZeroDivisionError", num |-> 0, den |-> 1]
              ELSE min(200 * elapsed, 3 * size, 99)
         ELSE IF status = "FAILED"
              THEN Returned(0, 1)
              ELSE Returned(0, 1)

InitPercentage ==
    /\ UploadInit
    /\ KeysOff
    /\ StoreInit
    /\ StagesOffBut("pct")
    /\ job_status \in JobStatuses
    /\ size_in_mb \in SizesInMb
    /\ elapsed_time \in ElapsedTimes
    /\ percentage = [outcome |-> "unset", num |-> 0, den |-> 1]

\* calculate_completion_percentage(job_status, size_in_mb, start_time)
CalculateCompletionPercentage ==
    /\ percentage.outcome = "unset"
    /\ percentage' = calculate_completion_percentage(job_status, size_in_mb, elapsed_time)
    /\ UNCHANGED << outside_pct, job_status, size_in_mb, elapsed_time >>

SpecPercentage == InitPercentage /\ [][CalculateCompletionPercentage]_vars

---------------------------------------------------------------------------
(* The Retrieval Stage: Processor.process_transcripts.  A directory is the  *)
(* set of pairs << base name, content >> of its files.                      *)

\* "x.json", "y.json", "z.json" and "n.txt"
ArtifactNames ==
    << <<"x", ".", "j", "s", "o", "n">>,
       <<"y", ".", "j", "s", "o", "n">>,
       <<"n", ".", "t", "x", "t">>,
       <<"z", ".", "j", "s", "o", "n">> >>

\* What the bucket holds under the completed prefix, as list_objects_v2
\* gives it: a transcript of three segments, the second of them without
\* a "transcript" entry, a body that is not JSON, an object that is no
\* transcript, and a JSON body without "results"
RemoteObjects ==
    << [ key |-> CompletedPrefix \o ArtifactNames[1], json |-> TRUE,
         transcripts |-> << [ transcript |-> "hello" ], [ type |-> "gap" ],
                            [ transcript |-> "world" ] >> ],
       [ key |-> CompletedPrefix \o ArtifactNames[2], json |-> FALSE,
         transcripts |-> << >> ],
       [ key |-> CompletedPrefix \o ArtifactNames[3], json |-> FALSE,
         transcripts |-> << >> ],
       [ key |-> CompletedPrefix \o ArtifactNames[4], json |-> TRUE,
         transcripts |-> << >> ] >>

\* the object stored under a key
ObjectAt(key) ==
    CHOOSE o \in { RemoteObjects[k] : k \in 1..Len(RemoteObjects) } : o.key = key

\* os.path.basename: what follows the last "/"
RECURSIVE basename(_)
basename(path) ==
    IF \E k \in 1..Len(path) : path[k] = "/"
    THEN basename(Tail(path))
    ELSE path

\* The segments written one after the other.
RECURSIVE join_unspaced(_)
join_unspaced(segments) ==
    IF segments = << >> THEN << >>
    ELSE << segments[1] >> \o join_unspaced(Tail(segments))

\* " ".join(segments)
RECURSIVE join(_)
join(segments) ==
    IF segments = << >> THEN << >>
    ELSE IF Len(segments) = 1 THEN << segments[1] >>
         ELSE << segments[1], " " >> \o join(Tail(segments))

\* parse_transcript: the text it writes for a document, the "transcript"
\* entries of data["results"]["transcripts"] joined, "" for a segment
\* that has none
transcript_text(data) ==
    join([ k \in 1..Len(data.transcripts) |->
             IF "transcript" \in DOMAIN data.transcripts[k]
             THEN data.transcripts[k].transcript
             ELSE "" ])

\* A parsed output opened for appending.
write_file_appended(dir, name, content) ==
    IF \E f \in dir : f[1] = name
    THEN { IF f[1] = name THEN << name, f[2] \o content >> ELSE f : f \in dir }
    ELSE dir \cup { << name, content >> }

\* open(path, "w") and write: the directory with the file holding content
write_file(dir, name, content) ==
    { f \in dir : f[1] # name } \cup { << name, content >> }

\* s3_client.download_file: the directory with the object in the file
download_file(dir, name, object) ==
    { f \in dir : f[1] # name } \cup { << name, object >> }

\* One failed object ends the loop.
next_object_none(k, n) == n + 1

\* the except clause of the loop's turn k of n ends the turn
next_object(k, n) == k + 1

\* list_s3_objects, which returns the keys or raises (the run ends)
ListS3Objects ==
    /\ rpc \in {"idle", "returned", "raised"}
    /\ runs < MaxRuns
    /\ \E ok \in BOOLEAN :
        IF ok
        THEN /\ objects_to_download' =
                  [k \in 1..Len(RemoteObjects) |-> RemoteObjects[k].key]
             /\ r_i' = 1
             /\ rpc' = "loop"
             /\ UNCHANGED runs
        ELSE /\ objects_to_download' = << >>
             /\ rpc' = "raised"
             /\ runs' = runs + 1
             /\ UNCHANGED r_i
    /\ r_log' = [errors |-> {}, skipped |-> {}]
    /\ r_hist' = [r_hist EXCEPT !.tried = {}, !.downloaded = {}]
    /\ UNCHANGED << outside_retr, staged, parsed >>

\* One turn of the loop: a key that does not end with ".json" is skipped;
\* otherwise download_s3_object stages the object or raises, and
\* parse_transcript writes the joined segments or raises on a body that is
\* not JSON; both failures are logged by the except clause.  After the last
\* key process_transcripts returns.
ProcessObject ==
    /\ rpc = "loop"
    /\ IF r_i > Len(objects_to_download)
       THEN /\ rpc' = "returned"
            /\ runs' = runs + 1
            /\ r_hist' = IF runs = 0
                         THEN [r_hist EXCEPT !.first_downloaded = r_hist.downloaded,
                                             !.first_parsed = parsed]
                         ELSE r_hist
            /\ UNCHANGED << r_i, staged, parsed, r_log >>
       ELSE LET obj_key == objects_to_download[r_i]
                name == basename(obj_key)
                n == Len(objects_to_download)
            IN  /\ UNCHANGED << rpc, runs >>
                /\ IF EndsWith(obj_key, Json)
                   THEN \E downloaded \in BOOLEAN :
                          IF ~downloaded
                          THEN /\ r_log' = [r_log EXCEPT !.errors = @ \cup {obj_key}]
                               /\ r_hist' = [r_hist EXCEPT !.tried = @ \cup {obj_key}]
                               /\ r_i' = next_object(r_i, n)
                               /\ UNCHANGED << staged, parsed >>
                          ELSE /\ staged' = download_file(staged, name, ObjectAt(obj_key))
                               /\ r_hist' = [r_hist EXCEPT
                                               !.tried = @ \cup {obj_key},
                                               !.downloaded = @ \cup {obj_key},
                                               !.downloads = @ + 1]
                               /\ IF ObjectAt(obj_key).json
                                  THEN /\ parsed' =
                                            write_file(parsed, name,
                                                       transcript_text(ObjectAt(obj_key)))
                                       /\ r_i' = r_i + 1
                                       /\ UNCHANGED r_log
                                  ELSE /\ r_log' =
                                            [r_log EXCEPT !.errors = @ \cup {obj_key}]
                                       /\ r_i' = next_object(r_i, n)
                                       /\ UNCHANGED parsed
                   ELSE /\ r_log' = [r_log EXCEPT !.skipped = @ \cup {obj_key}]
                        /\ r_i' = r_i + 1
                        /\ UNCHANGED << staged, parsed, r_hist >>
    /\ UNCHANGED << outside_retr, objects_to_download >>

NextRetrieval ==
    \/ ListS3Objects
    \/ ProcessObject

SpecRetrieval == Init /\ [][NextRetrieval]_vars

---------------------------------------------------------------------------
(* Header stripping: Scorer.strip_graymatter.  A file is the sequence of    *)
(* its lines as readlines gives them, each with its line end.               *)

\* "---", " --- " (a marker among blanks), "a", "b" and "----", each
\* followed by a line end
GraymatterLines ==
    { << "-", "-", "-", "\n" >>,
      << " ", "-", "-", "-", " ", "\n" >>,
      << "a", "\n" >>,
      << "b", "\n" >>,
      << "-", "-", "-", "-", "\n" >> }

\* A header that never closes.
toggle_stuck(inside_graymatter) == TRUE

\* inside_graymatter = not inside_graymatter
toggle(inside_graymatter) == ~inside_graymatter

\* the for loop of strip_graymatter over the lines still to read
RECURSIVE stripped_lines(_, _)
stripped_lines(lines, inside_graymatter) ==
    IF lines = << >> THEN << >>
    ELSE IF strip(Head(lines)) = << "-", "-", "-" >>
         THEN stripped_lines(Tail(lines), toggle(inside_graymatter))
         ELSE IF ~inside_graymatter
              THEN << Head(lines) >> \o stripped_lines(Tail(lines), inside_graymatter)
              ELSE stripped_lines(Tail(lines), inside_graymatter)

\* Scorer.strip_graymatter: the lines written back to the file
strip_graymatter(lines) == stripped_lines(lines, FALSE)

InitGraymatter ==
    /\ UploadInit
    /\ KeysOff
    /\ StoreInit
    /\ StagesOffBut("gray")
    /\ gm_pc = "written"
    /\ gm_content \in UNION { [1..n -> GraymatterLines] : n \in 0..MaxLines }
    /\ gm_file = gm_content

\* strip_graymatter(filepath): the file is read, stripped and written back
StripGraymatter ==
    /\ gm_pc = "written"
    /\ gm_file' = strip_graymatter(gm_file)
    /\ gm_pc' = "stripped"
    /\ UNCHANGED << outside_gray, gm_content >>

SpecGraymatter == InitGraymatter /\ [][StripGraymatter]_vars

---------------------------------------------------------------------------
(* The generation stages: Summarizer.summarize_transcripts and              *)
(* Scorer.process_feedback_files.  A scratch file is its numeric prefix and *)
(* the subject whose content it holds.                                      *)

\* base names of the files of parsed_transcriptions/
Subjects == {"p1", "p2"}

\* os.listdir of a directory holding one file for each member of S: the
\* members in any order
listdir(S) ==
    { s \in [1..Cardinality(S) -> S] : \A a, b \in 1..Len(s) : a # b => s[a] # s[b] }

\* .aillyrc and 10_template.md
Preamble ==
    { [prefix |-> "rc", subject |-> "none"],
      [prefix |-> "10", subject |-> "none"] }

\* 20_<base>.md and 30_analysis_<base>.md
SubjectFiles(base) ==
    { [prefix |-> "20", subject |-> base],
      [prefix |-> "30", subject |-> base] }

\* the removal of the files whose names start with "20_" or "30_"
cleanup(scratch) == { f \in scratch : f.prefix \notin {"20", "30"} }

\* 01_feedback.md and 02_scores.md
ScoreFiles(base) ==
    { [prefix |-> "01", subject |-> base],
      [prefix |-> "02", subject |-> base] }

\* no stage is in its loop
AtMenu == g_pc \in {"idle", "summarized", "raised", "scored"}

\* os.chdir(to) from the working directory from
chdir(from, to) == to

\* The working directory a stage is entered with: the one the menu loop has
\* kept, or, after a stage that raised and ended the process, the one a new
\* process starts in.
AtEntry(position, dir) == IF position = "raised" THEN "start" ELSE dir

\* one subprocess.run of the external tool
Invocation(stage, base, produced, had_result, inputs) ==
    [ stage |-> stage, subject |-> base, run |-> g_runs + 1,
      produced |-> produced, had_result |-> had_result, inputs |-> inputs ]

\* summarize_transcripts up to its loop: the scratch directory is created if
\* it is not there, and the preamble files are written
StartSummarize ==
    /\ AtMenu
    /\ g_runs < MaxStageRuns
    /\ \E S \in SUBSET Subjects : listing' \in listdir(S)
    /\ review_dir' = [exists |-> TRUE, files |-> review_dir.files \cup Preamble]
    /\ g_i' = 1
    /\ g_pc' = "summarize"
    /\ cwd' = AtEntry(g_pc, cwd)
    /\ UNCHANGED << outside_gen, results, scores_dir, reports, g_log, invoked, g_runs >>

\* One turn of the loop of summarize_transcripts: the subject's two files are
\* written, the tool runs, its output is moved to results/ and the files
\* starting with "20_" or "30_" are removed.  shutil.move raises when the
\* output is not there, and nothing catches it: the turn ends between
\* os.chdir(scratch) and os.chdir(current_dir).  After the last subject the
\* scratch directory is removed.
SummarizeTranscript ==
    /\ g_pc = "summarize"
    /\ IF g_i > Len(listing)
       THEN /\ review_dir' = [exists |-> FALSE, files |-> {}]
            /\ g_pc' = "summarized"
            /\ g_runs' = g_runs + 1
            /\ UNCHANGED << g_i, results, invoked, cwd >>
       ELSE LET base == listing[g_i]
                assembled == review_dir.files \cup SubjectFiles(base)
            IN  \E produced \in BOOLEAN :
                  /\ invoked' = Append(invoked,
                         Invocation("summarize", base, produced,
                                    base \in results, assembled))
                  /\ IF produced
                     THEN /\ results' = results \cup {base}
                          /\ review_dir' = [review_dir EXCEPT !.files = cleanup(assembled)]
                          /\ g_i' = g_i + 1
                          /\ cwd' = chdir(chdir(cwd, "user_testing_review"), cwd)
                          /\ UNCHANGED << g_pc, g_runs >>
                     ELSE /\ review_dir' = [review_dir EXCEPT !.files = assembled]
                          /\ cwd' = chdir(cwd, "user_testing_review")
                          /\ g_pc' = "raised"
                          /\ g_runs' = g_runs + 1
                          /\ UNCHANGED << g_i, results >>
    /\ UNCHANGED << outside_gen, listing, scores_dir, reports, g_log >>

\* process_feedback_files up to its loop
StartScore ==
    /\ AtMenu
    /\ g_runs < MaxStageRuns
    /\ listing' \in listdir(results)
    /\ g_i' = 1
    /\ g_pc' = "score"
    /\ cwd' = AtEntry(g_pc, cwd)
    /\ UNCHANGED << outside_gen, review_dir, results, scores_dir, reports, g_log,
                    invoked, g_runs >>

\* One turn of the loop of process_feedback_files: the summary is copied to
\* 01_feedback.md, the rubric written to 02_scores.md, the tool runs, and
\* the report is written from the two files, whatever the tool did.
ScoreResult ==
    /\ g_pc = "score"
    /\ IF g_i > Len(listing)
       THEN /\ g_pc' = "scored"
            /\ g_runs' = g_runs + 1
            /\ UNCHANGED << g_i, scores_dir, reports, invoked, cwd >>
       ELSE LET base == listing[g_i]
                assembled == { f \in scores_dir : f.prefix \notin {"01", "02"} }
                                \cup ScoreFiles(base)
            IN  \E produced \in BOOLEAN :
                  /\ invoked' = Append(invoked,
                         Invocation("score", base, produced,
                                    \E r \in reports : r.subject = base, assembled))
                  /\ scores_dir' = assembled
                  /\ reports' = { r \in reports : r.subject # base }
                                  \cup { [subject |-> base, scored |-> produced] }
                  /\ g_i' = g_i + 1
                  /\ cwd' = chdir(chdir(cwd, "scores"), cwd)
                  /\ UNCHANGED << g_pc, g_runs >>
    /\ UNCHANGED << outside_gen, listing, review_dir, results, g_log >>

NextGeneration ==
    \/ StartSummarize
    \/ SummarizeTranscript
    \/ StartScore
    \/ ScoreResult

SpecGeneration == Init /\ [][NextGeneration]_vars

---------------------------------------------------------------------------
(* The command line: main and ConfigManager.confirm_latest_output_dir.      *)

\* latest_output_dir.txt as main may find it: absent, empty, naming out-1
\* with or without a line end, naming out-2
PointerFiles ==
    { [exists |-> FALSE, text |-> << >>],
      [exists |-> TRUE, text |-> << >>],
      [exists |-> TRUE, text |-> <<"o", "u", "t", "-", "1">>],
      [exists |-> TRUE, text |-> <<"o", "u", "t", "-", "1", "\n">>],
      [exists |-> TRUE, text |-> <<"o", "u", "t", "-", "2">>] }

\* what the operator types at the yes/no prompt: "yes", " YES ", "no",
\* "y" and nothing
Answers ==
    { <<"y", "e", "s">>, <<" ", "Y", "E", "S", " ">>, <<"n", "o">>, <<"y">>, << >> }

\* f"out-{timestamp}", a name no earlier run has
NewRunId == <<"o", "u", "t", "-", "3">>

\* str.lower()
lower(s) ==
    [ k \in 1..Len(s) |->
        CASE s[k] = "Y" -> "y"
          [] s[k] = "E" -> "e"
          [] s[k] = "S" -> "s"
          [] s[k] = "N" -> "n"
          [] s[k] = "O" -> "o"
          [] OTHER -> s[k] ]

\* Any answer starting with "y" counts.
is_yes_prefix(use_latest) == use_latest # << >> /\ Head(use_latest) = "y"

\* use_latest == "yes"
is_yes(use_latest) == use_latest = <<"y", "e", "s">>

\* ConfigManager.confirm_latest_output_dir, for the pointer file, the
\* directories that exist and what the operator would answer
confirm_latest_output_dir(file, existing, answer) ==
    LET latest == get_latest_output_dir(file)
    IN  IF ~latest.none /\ latest.value # << >> /\ latest.value \in existing
        THEN [ called |-> TRUE, pointer |-> file, answer |-> answer,
               prompted |-> TRUE, returned |-> is_yes(lower(strip(answer))) ]
        ELSE [ called |-> TRUE, pointer |-> file, answer |-> << >>,
               prompted |-> FALSE, returned |-> FALSE ]

\* what the operator types at the menu prompt
Choices == {"1", "2", "3", "4", "5", "6", "7", "6 ", ""}

\* the branches of the menu: the component constructed and its entry
Branch(choice) ==
    CASE choice = "1" -> [component |-> "Uploader", entry |-> "upload_videos"]
      [] choice = "2" -> [component |-> "TranscriptionJobMonitor",
                          entry |-> "report_job_completion"]
      [] choice = "3" -> [component |-> "Processor", entry |-> "process_transcripts"]
      [] choice = "4" -> [component |-> "Summarizer", entry |-> "summarize_transcripts"]
      [] choice = "5" -> [component |-> "Scorer", entry |-> "score_results"]

\* Anything that is no stage ends the loop.
break_on_other(choice) == choice \notin {"1", "2", "3", "4", "5"}

\* elif choice == "6": ... break
break_on(choice) == choice = "6"

InitCli ==
    /\ UploadInit
    /\ KeysOff
    /\ StagesOffBut("cli")
    /\ saved = EmptyConfig
    /\ result = NoResult
    /\ latest_file \in PointerFiles
    /\ sets = << >>
    /\ latest_result = NoLatestResult
    /\ c_pc = "start"
    /\ dirs \in SUBSET RunIds
    /\ confirmed = NoConfirm
    /\ latest_output_dir = << >>
    /\ turn = NoTurn
    /\ n_turns = 0

\* main calls ConfigManager.confirm_latest_output_dir()
ConfirmLatestOutputDir ==
    /\ c_pc = "start"
    /\ \E answer \in Answers :
          confirmed' = confirm_latest_output_dir(latest_file, dirs, answer)
    /\ c_pc' = "confirmed"
    /\ UNCHANGED << outside_cli, dirs, latest_output_dir, turn, n_turns >>

\* main takes the latest run directory, or makes a new one and points
\* latest_output_dir.txt at it
SelectRun ==
    /\ c_pc = "confirmed"
    /\ IF confirmed.returned
       THEN /\ latest_output_dir' = get_latest_output_dir(latest_file).value
            /\ UNCHANGED << dirs, latest_file, sets >>
       ELSE /\ latest_output_dir' = NewRunId
            /\ dirs' = dirs \cup {NewRunId}
            /\ latest_file' = update_latest_output_dir(NewRunId, latest_file)
            /\ sets' = IF sets = << >> THEN << NewRunId >>
                       ELSE << sets[Len(sets)], NewRunId >>
    /\ c_pc' = "menu"
    /\ UNCHANGED << upload_vars, key_vars, beside_cli, saved, result, latest_result,
                    confirmed, turn, n_turns >>

\* One turn of the while loop.  input() returns a line or raises at the end
\* of the input; a stage's constructor and its entry return or raise, and
\* main catches nothing.
MenuTurn ==
    /\ c_pc = "menu"
    /\ n_turns < MaxChoices
    /\ n_turns' = n_turns + 1
    /\ \/ /\ turn' = [NoTurn EXCEPT !.choice = "EOF", !.raised = "input"]
          /\ c_pc' = "raised"
       \/ \E choice \in Choices :
            IF choice \in {"1", "2", "3", "4", "5"}
            THEN \E directory \in {"videos"}, outcome \in {"no", "constructor", "entry"} :
                   /\ turn' =
                        [ choice |-> choice,
                          directory |-> IF choice = "1" THEN directory ELSE "none",
                          constructed |-> << [ component |-> Branch(choice).component,
                                               args |-> << latest_output_dir >> ] >>,
                          entered |-> IF outcome = "constructor" THEN << >>
                                      ELSE << Branch(choice).entry >>,
                          printed |-> << >>,
                          raised |-> outcome ]
                   /\ c_pc' = IF outcome = "no" THEN "menu" ELSE "raised"
            ELSE /\ turn' =
                      [ NoTurn EXCEPT
                          !.choice = choice,
                          !.printed = IF choice = "6"
                                      THEN << "Exiting UXR Analysis Tool..." >>
                                      ELSE << "Invalid choice. Please try again." >> ]
                 /\ c_pc' = IF break_on(choice) THEN "exited" ELSE "menu"
    /\ UNCHANGED << outside_cli, dirs, confirmed, latest_output_dir >>

NextCli ==
    \/ ConfirmLatestOutputDir
    \/ SelectRun
    \/ MenuTurn

SpecCli == InitCli /\ [][NextCli]_vars

---------------------------------------------------------------------------
(* wait_for_s3_upload, the polling loop of an upload. *)

\* The loop gives up at the first answer that is no success.
after_head_gives_up(answer) ==
    IF answer = "raises" THEN "raised" ELSE "returned"

\* Where the loop stands after an answer of head_object: a success returns,
\* a ClientError with code 404 is passed over and the loop sleeps and asks
\* again, any other ClientError is logged and breaks out of the loop, and an
\* exception that is no ClientError leaves the function
after_head(answer) ==
    CASE answer = "found" -> "returned"
      [] answer = "404" -> "polling"
      [] answer = "error" -> "returned"
      [] answer = "raises" -> "raised"

\* wait_for_s3_upload(bucket_name, object_name) is called
CallWait ==
    /\ w_pc \in {"off", "returned", "raised"}
    /\ w_calls < MaxStageRuns
    /\ \E object_name \in MediaFiles :
        w_object' = object_name
    /\ w_pc' = "polling"
    /\ w_polls' = 0
    /\ w_last' = "none"
    /\ w_calls' = w_calls + 1
    /\ UNCHANGED << visible, w_log, outside_poll >>

\* The bucket comes to hold an object: head_object finds it from now on.
BecomeVisible ==
    /\ \E object_name \in MediaFiles \ visible :
        visible' = visible \cup {object_name}
    /\ UNCHANGED << w_pc, w_object, w_polls, w_last, w_log, w_calls, outside_poll >>

\* One turn of the while loop: head_object answers with a success when the
\* bucket holds the object and with 404 when it does not, or it fails with
\* another ClientError or with an exception that is none
HeadObject ==
    /\ w_pc = "polling"
    /\ \E answer \in {"found", "404", "error", "raises"} :
        /\ answer = "found" => w_object \in visible
        /\ answer = "404" => w_object \notin visible
        /\ w_last' = answer
        /\ w_pc' = after_head(answer)
        /\ w_polls' = IF answer = "404" /\ w_polls < MaxPolls
                      THEN w_polls + 1 ELSE w_polls
        /\ w_log' = IF answer = "error" THEN w_log \cup {w_object} ELSE w_log
    /\ UNCHANGED << w_object, visible, w_calls, outside_poll >>

NextPoll ==
    \/ CallWait
    \/ BecomeVisible
    \/ HeadObject

\* The loop is sequential code: after time.sleep(1) the next head_object
\* call is made, so a turn of the loop that can be taken is taken.
SpecPoll == Init /\ [][NextPoll]_vars /\ WF_vars(HeadObject)

---------------------------------------------------------------------------
(* Claims about the Upload Stage. *)

\* the File Records of the persisted document
StoredFiles == config_file.data.files

\* C1: once an invocation has returned with every candidate file recorded with
\* an upload duration and a job identifier, a later invocation with the same
\* bucket issues no remote put call and no remote submit call.
C1_RerunIssuesNoRemoteCall ==
    [][ (done_bucket # NoBucket /\ bucket_name' = done_bucket)
            => (put_calls' = put_calls /\ submit_calls' = submit_calls) ]_vars

\* C2: over the lifetime of a run, crashes and re-runs included, each file has
\* at most one successful remote put and at most one successful remote submit.
C2_AtMostOnePutAndSubmit ==
    \A f \in MediaFiles : put_ok[f] <= 1 /\ submit_ok[f] <= 1

\* C3: when an invocation returns, a File Record of the State Store that has
\* exactly one of upload duration and job identifier belongs to a file for
\* which an error was logged during the invocation.
C3_BothOrNeitherUnlessLogged ==
    pc = "returned" =>
        \A k \in 1..Len(StoredFiles) :
            (StoredFiles[k].upload_time # (StoredFiles[k].job_name # 0))
                => StoredFiles[k].file_name \in err_log

\* An invocation has returned leaving one record with both fields and one
\* record, of a file with a logged error, with the upload duration alone.
C3_Witness ==
    /\ pc = "returned"
    /\ \E k \in 1..Len(StoredFiles) :
          StoredFiles[k].upload_time /\ StoredFiles[k].job_name # 0
    /\ \E k \in 1..Len(StoredFiles) :
          /\ StoredFiles[k].upload_time
          /\ StoredFiles[k].job_name = 0
          /\ StoredFiles[k].file_name \in err_log

\* C4: a File Record with a job identifier has an upload duration, in the
\* document and in memory, and a remote submit is issued for a file only when
\* the document already holds its upload duration.
C4_JobOnlyAfterUpload ==
    /\ [](\A k \in 1..Len(StoredFiles) :
            StoredFiles[k].job_name # 0 => StoredFiles[k].upload_time)
    /\ [](\A k \in 1..Len(config_data.files) :
            config_data.files[k].job_name # 0 => config_data.files[k].upload_time)
    /\ [][ \A f \in MediaFiles :
             submit_calls'[f] > submit_calls[f] =>
                \E k \in 1..Len(StoredFiles) :
                    StoredFiles[k].file_name = f /\ StoredFiles[k].upload_time ]_vars

\* The document holds a record with a job identifier (and its upload duration).
C4_Witness ==
    \E k \in 1..Len(StoredFiles) :
        StoredFiles[k].job_name # 0 /\ StoredFiles[k].upload_time
            /\ submit_ok[StoredFiles[k].file_name] > 0

\* C5: in every persisted document a File Record has a job start time if and
\* only if it has a job identifier.
C5_StartTimeIffJobName ==
    config_file.exists =>
        \A k \in 1..Len(StoredFiles) :
            (StoredFiles[k].start_time # "none") <=> (StoredFiles[k].job_name # 0)

\* C6: no two File Records of the State Store have the same file name.
C6_UniqueFileNames ==
    \A k, l \in 1..Len(StoredFiles) :
        k # l => StoredFiles[k].file_name # StoredFiles[l].file_name

---------------------------------------------------------------------------
(* Claims about sanitize_s3_key and the output key. *)

\* The characters the remote service accepts in a key: the ASCII letters and
\* digits that occur in the keys of this section, and - _ . ! * ' ( ) /
AllowedChars ==
    { "a", "Z", "9", "4", "m", "p", "j", "s", "o", "n",
      "-", "_", ".", "!", "*", "'", "(", ")", "/" }

\* C7: two distinct media file names of a run have different output keys.
C7_OutputKeyInjective ==
    (kpc = "keys" /\ in_key # in_key2) => out_key # out_key2

\* C8: sanitize_s3_key returns, for every input, a string of the same length
\* made of allowed characters only, with each allowed character left in place
\* and every other character replaced by "_".
C8_SanitizeCharByChar ==
    kpc \in {"sanitized", "resanitized"} =>
        /\ Len(out_key) = Len(in_key)
        /\ \A k \in 1..Len(in_key) :
              /\ out_key[k] \in AllowedChars
              /\ in_key[k] \in AllowedChars => out_key[k] = in_key[k]
              /\ in_key[k] \notin AllowedChars => out_key[k] = "_"

\* A key with an allowed and a replaced character has been sanitized.
C8_Witness ==
    /\ kpc = "sanitized"
    /\ \E k \in 1..Len(in_key) : in_key[k] \in AllowedChars /\ out_key[k] = in_key[k]
    /\ \E k \in 1..Len(in_key) : in_key[k] \notin AllowedChars /\ out_key[k] = "_"

\* C9: sanitizing a sanitized key changes nothing, and a key made of allowed
\* characters only is returned as it is.
C9_SanitizeIdempotent ==
    /\ kpc = "resanitized" => out_key2 = out_key
    /\ (kpc \in {"sanitized", "resanitized"}
          /\ \A k \in 1..Len(in_key) : in_key[k] \in AllowedChars) => out_key = in_key

\* A key that sanitizing changed has been sanitized a second time.
C9_Witness ==
    /\ kpc = "resanitized"
    /\ out_key # in_key
    /\ out_key2 = out_key

---------------------------------------------------------------------------
(* Claims about failures and retries of the Upload Stage. *)

\* the invocation went through both loops and returned
ReturnedFromLoops == pc = "returned" /\ files # <<>> /\ i > Len(files)

\* C11: a file whose put failed in this invocation has no File Record (so no
\* upload duration) and a logged error; a file whose submit failed has no job
\* identifier in memory or on disk and a logged error; and an invocation that
\* returns has tried the put of every file it did not skip and the submit of
\* every record that has no job identifier.
C11_FailureLoggedRestAttempted ==
    /\ \A f \in hist.put_failed :
          /\ f \in err_log
          /\ \A k \in 1..Len(config_data.files) : config_data.files[k].file_name # f
          /\ \A k \in 1..Len(StoredFiles) : StoredFiles[k].file_name # f
    /\ \A f \in hist.submit_failed :
          /\ f \in err_log
          /\ \A k \in 1..Len(config_data.files) :
                config_data.files[k].file_name = f => config_data.files[k].job_name = 0
          /\ \A k \in 1..Len(StoredFiles) :
                StoredFiles[k].file_name = f => StoredFiles[k].job_name = 0
    /\ ReturnedFromLoops =>
          /\ \A k \in 1..Len(files) :
                files[k] \in hist.put_tried \/ files[k] \in existing_files
          /\ \A k \in 1..Len(config_data.files) :
                \/ config_data.files[k].job_name # 0
                \/ config_data.files[k].file_name \in hist.submit_tried

\* the put of the first file failed, the second file was uploaded and its
\* submit failed, and the invocation returned
C11_Witness ==
    /\ ReturnedFromLoops
    /\ Len(files) = 2
    /\ files[1] \in hist.put_failed
    /\ files[2] \in hist.submit_failed
    /\ files[2] \in hist.put_tried

\* C12: a file the last returned invocation left uploaded and not submitted
\* gets no second put from an invocation that uses the same bucket.
C12_PendingSubmitNoSecondPut ==
    [][ \A f \in hist.pending :
          bucket_name' = hist.last_bucket => put_calls'[f] = put_calls[f] ]_vars

\* C13: a file whose existence poll ended on an error other than 404 in this
\* invocation has no File Record, in memory or on disk.
C13_NoRecordAfterPollError ==
    \A f \in hist.head_failed :
        /\ \A k \in 1..Len(config_data.files) : config_data.files[k].file_name # f
        /\ \A k \in 1..Len(StoredFiles) : StoredFiles[k].file_name # f

\* C14: whoever reads the document, a process restarted after a crash during
\* a save included, finds a complete document: never an empty or partial one.
C14_ReaderSeesCompleteDocument == config_file.exists => config_file.parsable

\* C15: while the document exists and cannot be parsed, no step of the Upload
\* Stage overwrites or resets it.
C15_CorruptDocumentNotOverwritten ==
    [][ (config_file.exists /\ ~config_file.parsable) => config_file' = config_file ]_vars

---------------------------------------------------------------------------
(* Claims about ConfigManager. *)

\* C16: a load of an absent document raises the not-found error, a load of an
\* unparsable one raises the parse error, neither returns a Run Context, and
\* no load changes the document.
C16_LoadRaisesAndLeavesDocument ==
    /\ [](result.raised # "unset" =>
            /\ ~config_file.exists =>
                  result.raised = "FileNotFoundError" /\ ~result.returned
            /\ (config_file.exists /\ ~config_file.parsable) =>
                  result.raised = "JSONDecodeError" /\ ~result.returned)
    /\ [][ (result' # result /\ result'.raised # "unset") =>
              config_file' = config_file ]_vars

\* a load of a document cut short by an interrupted save has raised
C16_Witness ==
    /\ config_file = truncated_config
    /\ result.raised = "JSONDecodeError"

\* C17: a load that follows a save returns every field as it was handed to
\* the save, except that a start time handed over as a datetime comes back as
\* the ISO-8601 string of the same instant.
C17_SaveLoadRoundTrip ==
    result.returned =>
        /\ result.value.video_directory = saved.video_directory
        /\ result.value.templates = saved.templates
        /\ result.value.bucket_name = saved.bucket_name
        /\ result.value.has_files = saved.has_files
        /\ Len(result.value.files) = Len(saved.files)
        /\ \A k \in 1..Len(saved.files) :
              LET in == saved.files[k]
                  out == result.value.files[k]
              IN  /\ out.file_name = in.file_name
                  /\ out.media_uri = in.media_uri
                  /\ out.output_key = in.output_key
                  /\ out.upload_time = in.upload_time
                  /\ out.job_name = in.job_name
                  /\ out.start_time =
                        CASE in.start_time = "datetime" -> "iso"
                          [] in.start_time = "datetime2" -> "iso2"
                          [] OTHER -> in.start_time

\* a document with datetime start times of two instants was saved and loaded
C17_Witness ==
    /\ result.returned
    /\ Len(saved.files) = 2
    /\ saved.files[1].start_time = "datetime"
    /\ saved.files[2].start_time = "datetime2"
    /\ result.value.files[2].start_time = "iso2"

\* C18: the pointer is empty while latest_output_dir.txt is absent, and
\* otherwise is the directory handed to the last update.
C18_LatestPointerIsLastSet ==
    latest_result.called =>
        IF sets = << >>
        THEN latest_result.none
        ELSE ~latest_result.none /\ latest_result.value = sets[Len(sets)]

\* two different directories were set one after the other, then the pointer
\* was read
C18_Witness ==
    /\ latest_result.called
    /\ Len(sets) = 2
    /\ sets[1] # sets[2]
    /\ latest_result.value = sets[2]

---------------------------------------------------------------------------
(* Claims about the Progress Monitor. *)

\* C19: no report of the Progress Monitor changes the document, whatever the
\* document holds and whatever the status queries answer, failures included.
C19_MonitorLeavesDocument ==
    [][ (report' # report /\ report'.outcome # "unset") =>
          config_file' = config_file ]_vars

\* a report was printed for two jobs, one status query of which failed
C19_Witness ==
    /\ report.outcome = "printed"
    /\ Len(report.rows) = 2
    /\ report.rows[1][2] = "UNKNOWN"
    /\ report.rows[2][2] = "COMPLETED"
    /\ config_file.exists /\ Len(StoredFiles) = 2

\* the job names of the records that have one, in the order of the document
SubmittedJobs ==
    LET submitted == SelectSeq(StoredFiles, LAMBDA item : item.job_name # 0)
    IN  [k \in 1..Len(submitted) |-> submitted[k].job_name]

\* C20: a report on a readable document completes, and has exactly one row
\* for each File Record with a job identifier and none for the others.
C20_OneRowPerSubmittedRecord ==
    (report.outcome # "unset" /\ config_file.exists /\ config_file.parsable) =>
        /\ report.outcome \in {"printed", "no_jobs"}
        /\ Len(report.rows) = Len(SubmittedJobs)
        /\ \A k \in 1..Len(report.rows) : report.rows[k][1] = SubmittedJobs[k]

---------------------------------------------------------------------------
(* Claims about the completion percentage. *)

\* the fraction returned is the number x
Is(x) == percentage.outcome = "returned" /\ percentage.num = x * percentage.den

\* C21: the percentage is 100 for COMPLETED, 0 for FAILED and for any status
\* other than IN_PROGRESS; for IN_PROGRESS it is 0 when no time has elapsed,
\* 99 when the elapsed time is at least 1.5 seconds per MB, 50 for 20 MB and
\* 15 seconds, and elapsed / (size * 1.5) * 100 below the cap.
C21_CompletionPercentage ==
    percentage.outcome # "unset" =>
        /\ job_status = "COMPLETED" => Is(100)
        /\ job_status \notin {"COMPLETED", "IN_PROGRESS"} => Is(0)
        /\ job_status = "IN_PROGRESS" =>
              /\ 2 * elapsed_time >= 3 * size_in_mb => Is(99)
              /\ (elapsed_time = 0 /\ size_in_mb > 0) => Is(0)
              /\ (size_in_mb = 20 /\ elapsed_time = 15) => Is(50)
              /\ 200 * elapsed_time < 99 * 3 * size_in_mb =>
                    /\ percentage.outcome = "returned"
                    /\ percentage.num * 3 * size_in_mb = 200 * elapsed_time * percentage.den

---------------------------------------------------------------------------
(* Claims about the Retrieval Stage. *)

\* process_transcripts went through its loop and returned
RetrievalReturned == rpc = "returned"

\* the parsed output of a key holds the joined segments of its object
ParsedFrom(key) == << basename(key), transcript_text(ObjectAt(key)) >> \in parsed

\* C22: when process_transcripts returns, every listed key that ends with
\* ".json" had its download tried; each one whose download worked and whose
\* body is JSON has its parsed output; each one that failed has an error
\* line; and every other key has a skip line, no error line and no download.
C22_FailureLoggedRestProcessed ==
    RetrievalReturned =>
        \A k \in 1..Len(objects_to_download) :
            LET key == objects_to_download[k] IN
            IF EndsWith(key, Json)
            THEN /\ key \in r_hist.tried
                 /\ key \notin r_log.skipped
                 /\ (key \in r_hist.downloaded /\ ObjectAt(key).json) => ParsedFrom(key)
                 /\ (key \notin r_hist.downloaded \/ ~ObjectAt(key).json) =>
                       key \in r_log.errors
            ELSE /\ key \in r_log.skipped
                 /\ key \notin r_log.errors
                 /\ key \notin r_hist.tried

\* the first run: the download of x.json failed, the parse of y.json failed,
\* n.txt was skipped, and z.json was still downloaded and parsed
C22_Witness ==
    /\ RetrievalReturned
    /\ runs = 1
    /\ RemoteObjects[1].key \in r_log.errors
    /\ RemoteObjects[1].key \notin r_hist.downloaded
    /\ RemoteObjects[2].key \in r_hist.downloaded
    /\ RemoteObjects[2].key \in r_log.errors
    /\ RemoteObjects[3].key \in r_log.skipped
    /\ ParsedFrom(RemoteObjects[4].key)

\* C23 as stated: after the second run the parsed outputs are those the first
\* run left, none changed and none added.
C23_SecondRunLeavesParsed ==
    runs = 2 => parsed = r_hist.first_parsed

\* C23: after the second run every parsed output the first run left is still
\* there with the same content, and a parsed output the first run did not
\* leave belongs to an object whose download the first run did not complete.
C23_SecondRunRewritesSame ==
    runs = 2 =>
        /\ r_hist.first_parsed \subseteq parsed
        /\ \A f \in parsed \ r_hist.first_parsed :
              /\ \A g \in r_hist.first_parsed : g[1] # f[1]
              /\ \A key \in r_hist.first_downloaded : basename(key) # f[1]

\* two runs that both downloaded and parsed x.json, the second one also
\* z.json, whose download had failed in the first
C23_Witness ==
    /\ runs = 2
    /\ RemoteObjects[1].key \in r_hist.first_downloaded
    /\ RemoteObjects[1].key \in r_hist.downloaded
    /\ ParsedFrom(RemoteObjects[1].key)
    /\ RemoteObjects[4].key \notin r_hist.first_downloaded
    /\ ParsedFrom(RemoteObjects[4].key)
    /\ parsed # r_hist.first_parsed

---------------------------------------------------------------------------
(* Claims about header stripping. *)

\* a line that holds the marker and nothing else but blanks and its line end
MarkerLine(line) == strip(line) = << "-", "-", "-" >>

\* the positions of the marker lines of a file
MarkerPositions(lines) == { k \in 1..Len(lines) : MarkerLine(lines[k]) }

\* line k is no marker line and has an even number of marker lines before it
Outside(lines, k) ==
    /\ ~MarkerLine(lines[k])
    /\ Cardinality({ m \in MarkerPositions(lines) : m < k }) % 2 = 0

\* the lines of positions k.. that are outside, in their order
RECURSIVE OutsideFrom(_, _)
OutsideFrom(lines, k) ==
    IF k > Len(lines) THEN << >>
    ELSE IF Outside(lines, k)
         THEN << lines[k] >> \o OutsideFrom(lines, k + 1)
         ELSE OutsideFrom(lines, k + 1)

\* C24: the stripped file holds, in their order and unchanged, exactly the
\* lines that are no marker lines and have an even number of marker lines
\* before them; a file without marker lines is unchanged, and with an odd
\* number of marker lines nothing of what follows the last one is kept.
C24_StripKeepsLinesOutsideHeaders ==
    gm_pc = "stripped" =>
        LET markers == MarkerPositions(gm_content)
            last == CHOOSE k \in markers : \A m \in markers : m <= k
        IN  /\ gm_file = OutsideFrom(gm_content, 1)
            /\ markers = {} => gm_file = gm_content
            /\ Cardinality(markers) % 2 = 1 =>
                  gm_file = OutsideFrom(SubSeq(gm_content, 1, last - 1), 1)

\* "a", a closed empty header, an unterminated marker and "b": "a" is kept
C24_Witness ==
    /\ gm_pc = "stripped"
    /\ Len(gm_content) = 5
    /\ Cardinality(MarkerPositions(gm_content)) = 3
    /\ ~MarkerLine(gm_content[1])
    /\ ~MarkerLine(gm_content[5])
    /\ gm_file = << gm_content[1] >>

---------------------------------------------------------------------------
(* Claims about the generation stages. *)

\* the calls of the tool made by the stage run that ended last
LastRun == { invoked[k] : k \in { n \in 1..Len(invoked) : invoked[n].run = g_runs } }

\* C25: when a stage run has ended, every subject for which the tool
\* produced no output has an error line of that stage, no other subject has
\* one, and the tool was invoked for every listed subject.
C25_FailureLoggedBatchGoesOn ==
    (AtMenu /\ g_runs > 0) =>
        /\ \A c \in LastRun :
              ~c.produced <=> [stage |-> c.stage, subject |-> c.subject] \in g_log
        /\ \A k \in 1..Len(listing) :
              \E c \in LastRun : c.subject = listing[k]

\* the subjects a stage has handled
Handled == { invoked[k].subject : k \in 1..Len(invoked) }

\* C26: no scratch file of a handled subject is left in either scratch
\* directory, and every call of the tool saw the files of its own subject
\* only.
C26_NoScratchResidue ==
    /\ \A f \in review_dir.files \cup scores_dir : f.subject \notin Handled
    /\ \A k \in 1..Len(invoked) :
          \A f \in invoked[k].inputs : f.subject \in {"none", invoked[k].subject}

\* C27: the tool is never invoked for a subject that already has the result
\* of the stage.
C27_NoSecondInvocation ==
    \A k \in 1..Len(invoked) : ~invoked[k].had_result

---------------------------------------------------------------------------
(* Claims about the command line. *)

\* the component and the entry operation of the options 2 to 5
StageOf(choice) ==
    CASE choice = "2" -> << "TranscriptionJobMonitor", "report_job_completion" >>
      [] choice = "3" -> << "Processor", "process_transcripts" >>
      [] choice = "4" -> << "Summarizer", "summarize_transcripts" >>
      [] choice = "5" -> << "Scorer", "score_results" >>

\* the turn constructed the component of its option once, with the run
\* directory
ConstructedOnce ==
    turn.constructed = << [ component |-> StageOf(turn.choice)[1],
                            args |-> << latest_output_dir >> ] >>

\* main has ended
Ended == c_pc \in {"exited", "raised"}

C29_UploaderGetsBothDirectories ==
    turn.choice = "1" =>
        /\ turn.constructed = << [ component |-> "Uploader",
                                   args |-> << turn.directory, latest_output_dir >> ] >>
        /\ turn.entered = << "upload_videos" >>

\* a pointer file that exists and names a directory that exists
NamesExistingDirectory(file) == file.exists /\ strip(file.text) \in dirs

\* the operator answered yes, in any case and among blanks
AnsweredYes(answer) == lower(strip(answer)) = <<"y", "e", "s">>

\* C30: confirm_latest_output_dir has returned True exactly when the pointer
\* file exists, the directory it names exists and the operator answered yes;
\* and when the pointer is absent or names no existing directory it has
\* returned False without a prompt.
C30_ConfirmOnlyOnYes ==
    c_pc = "confirmed" =>
        /\ confirmed.returned <=>
              /\ NamesExistingDirectory(confirmed.pointer)
              /\ confirmed.prompted
              /\ AnsweredYes(confirmed.answer)
        /\ confirmed.prompted <=> NamesExistingDirectory(confirmed.pointer)
        /\ ~NamesExistingDirectory(confirmed.pointer) => ~confirmed.returned

\* the pointer names out-1 with a line end, out-1 exists, and the operator
\* answered " YES "
C30_Witness ==
    /\ c_pc = "confirmed"
    /\ confirmed.pointer.text = <<"o", "u", "t", "-", "1", "\n">>
    /\ confirmed.answer = <<" ", "Y", "E", "S", " ">>
    /\ confirmed.returned

---------------------------------------------------------------------------
(* Claims about the order of the remote calls of the Upload Stage. *)

\* the File Record of a file carries an upload duration
Uploaded(f) ==
    \E k \in 1..Len(config_data.files) :
        config_data.files[k].file_name = f /\ config_data.files[k].upload_time

\* C31 as stated: when the upload of a file is under way, every other file
\* this invocation has uploaded has had its job submitted.
C31_SubmitBeforeNextUpload ==
    pc = "head" =>
        \A f \in hist.put_tried \ {files[i]} :
            Uploaded(f) => f \in hist.submit_tried

\* C31: a job is submitted only for a file whose File Record carries an
\* upload duration, and only once the upload loop of the invocation has had
\* its turn for every file of the batch.
C31_SubmitAfterUploadLoop ==
    \A f \in hist.submit_tried :
        /\ Uploaded(f)
        /\ i > Len(files)
        /\ pc \in {"jobs", "returned", "none"}

\* both files were uploaded by this invocation before the first job was
\* submitted
C31_Witness ==
    /\ pc = "jobs"
    /\ hist.put_tried = MediaFiles
    /\ Cardinality(hist.submit_tried) = 1
    /\ \A f \in MediaFiles : Uploaded(f)

---------------------------------------------------------------------------
(* Claims about the text of a parsed transcript. *)

\* the text of segment k of a document, nothing when the segment has none
SegmentText(object, k) ==
    IF "transcript" \in DOMAIN object.transcripts[k]
    THEN object.transcripts[k].transcript
    ELSE ""

\* content is the segments of the document in their order with one space
\* between two that follow each other, and nothing for no segments
SpacedSegments(content, object) ==
    LET n == Len(object.transcripts) IN
    /\ Len(content) = IF n = 0 THEN 0 ELSE 2 * n - 1
    /\ \A k \in 1..n : content[2 * k - 1] = SegmentText(object, k)
    /\ \A k \in 1..(n - 1) : content[2 * k] = " "

\* C33: every parsed output holds the segments of the document downloaded
\* under its name, in document order, with exactly one space between
\* consecutive segments, a segment without text counting as the empty
\* string; it is empty when the document has no segments.
C33_ParsedIsSpacedSegments ==
    \A f \in parsed :
        \E k \in 1..Len(RemoteObjects) :
            /\ basename(RemoteObjects[k].key) = f[1]
            /\ RemoteObjects[k].json
            /\ SpacedSegments(f[2], RemoteObjects[k])

\* x.json, whose second segment has no text, parsed to "hello", " ", "",
\* " ", "world", and z.json, which has no segments, parsed to nothing
C33_Witness ==
    /\ << ArtifactNames[1], << "hello", " ", "", " ", "world" >> >> \in parsed
    /\ << ArtifactNames[4], << >> >> \in parsed

---------------------------------------------------------------------------
(* Claims about the polling loop of an upload. *)

\* C32: wait_for_s3_upload has returned only after a head call that
\* succeeded or failed with an API error other than 404; after a 404 answer
\* it is still polling; and once the object is visible while it polls, the
\* loop terminates.
C32_PollLoop ==
    /\ [](w_pc = "returned" => w_last \in {"found", "error"})
    /\ [](w_last = "404" => w_pc = "polling")
    /\ ((w_pc = "polling" /\ w_object \in visible) ~> (w_pc # "polling"))

\* a call that was answered 404, kept polling, and returned on a success once
\* the object had become visible
C32_Witness ==
    /\ w_pc = "returned"
    /\ w_last = "found"
    /\ w_polls >= 1
    /\ w_object \in visible

---------------------------------------------------------------------------
(* Claims about what the State Store keeps of an upload. *)

\* C34: whenever the persisted document holds a File Record it holds the
\* bucket name too, the one the media locators of its records point into.
C34_RecordsImplyBucketName ==
    (config_file.exists /\ config_file.parsable) =>
        \A k \in 1..Len(config_file.data.files) :
            /\ config_file.data.bucket_name # NoBucket
            /\ config_file.data.files[k].media_uri[1] = config_file.data.bucket_name

\* C35: constructing the Uploader for a run that has a State Store document
\* leaves the persisted bucket name and File Records as they were.
C35_ConstructKeepsDocument ==
    [][ (Construct /\ config_file.exists /\ config_file.parsable) =>
            /\ config_file'.exists /\ config_file'.parsable
            /\ config_file'.data.bucket_name = config_file.data.bucket_name
            /\ config_file'.data.files = config_file.data.files ]_vars

\* C36: when the operator answers anything but yes at the proceed
\* confirmation, the invocation has made no remote put and no submit call,
\* and the persisted document holds File Records for the same files as
\* before the invocation.
C36_CancelLeavesRunUntouched ==
    [][ (pc = "confirm" /\ pc' = "returned") =>
            /\ hist'.put_tried = {}
            /\ hist'.submit_tried = {}
            /\ RecordedNames(config_file') = hist'.files_before ]_vars

---------------------------------------------------------------------------
(* Claims about the output locator as the Retrieval Stage meets it. *)

\* list_objects_v2 with Prefix = completed_prefix lists the key, and
\* process_transcripts takes it for a transcript: obj_key.endswith(".json")
ListedAndAccepted(key) ==
    /\ Len(key) >= Len(CompletedPrefix)
    /\ SubSeq(key, 1, Len(CompletedPrefix)) = CompletedPrefix
    /\ Len(key) >= Len(Json)
    /\ SubSeq(key, Len(key) - Len(Json) + 1, Len(key)) = Json

\* C37: every output locator the Upload Stage computes for a media file
\* starts with the completed-output prefix the Retrieval Stage lists and ends
\* with the ".json" extension the Retrieval Stage accepts.
C37_OutputKeyListedAndAccepted ==
    kpc = "keys" => ListedAndAccepted(out_key) /\ ListedAndAccepted(out_key2)

\* the keys of " :.mp4", whose stem is replaced whole, and of "..mp4"
C37_Witness ==
    /\ kpc = "keys"
    /\ in_key = << " ", ":" >> \o Mp4
    /\ out_key = CompletedPrefix \o << "_", "_" >> \o Json
    /\ in_key2 = << ".", "." >> \o Mp4
    /\ out_key2 = CompletedPrefix \o << ".", "." >> \o Json

---------------------------------------------------------------------------
(* Claims about the working directory of the generation stages. *)

\* C38: when Summarize or Score has returned or failed, the working
\* directory of the process is the one the stage was entered with, which is
\* the directory the process started in.
C38_WorkingDirectoryRestored ==
    g_pc \in {"summarized", "scored", "raised"} => cwd = "start"

---------------------------------------------------------------------------
(* Claims about the range of the completion percentage. *)

\* C39: for every job status, every file size from 0 up and every start
\* time, one later than the clock included, calculate_completion_percentage
\* returns, and what it returns is between 0 and 100.
C39_PercentageInRange ==
    percentage.outcome # "unset" =>
        /\ percentage.outcome = "returned"
        /\ percentage.den > 0
        /\ 0 <= percentage.num
        /\ percentage.num <= 100 * percentage.den

===========================================================================
